---- MODULE Spec2Model ----
(***************************************************************************)
(* Telegram notifier module for the Z-Way home automation server           *)
(* (src/index.js).  The module instance is modelled as a state machine:    *)
(* its fields (url, messages, interval, length), the host objects it acts  *)
(* on (the controller's handler subscription, the pending setTimeout       *)
(* timers, the HTTP requests in flight) and the wall clock.                *)
(*                                                                         *)
(* Text is a sequence of tokens (strings): a placeholder such as "$VALUE"  *)
(* is one token, so String.prototype.replace's first-occurrence search is  *)
(* a search for the first such token.  Timestamps are milliseconds.        *)
(***************************************************************************)
EXTENDS Integers, Sequences, FiniteSets, Bags, TLC

VARIABLES
    config,      \* the config object handed to init (init sorts its rule list in place)
    url,         \* this.url
    messages,    \* this.messages: device name -> array of {time, message}, in key insertion order
    interval,    \* this.interval: array of flush timestamps
    length,      \* this.length (written by the notifier)
    registered,  \* controller subscription of this.notificationHandler to 'notifications.push'
    timers,      \* pending setTimeout timers: bag of absolute target times (NaN: no valid delay)
    now,         \* Date.now()
    requests,    \* http.request calls whose complete callback has not run yet: bag of texts
    last,        \* the operation that ran last, with its inputs
    audit        \* history: entries collected so far, entries carried by flush payloads so far

vars == <<config, url, messages, interval, length, registered, timers, now, requests, last, audit>>

-----------------------------------------------------------------------------
(* Bounds *)

MaxRules    == 3   \* longest rule catalog configured
MaxCollect  == 2   \* collected entries kept in the model
MaxInFlight == 1   \* HTTP requests in flight at once
MaxTimers   == 2   \* setTimeout timers pending at once
MaxDays     == 1   \* days after the day of the first init that the clock runs through
MaxLate     == 1   \* milliseconds after a flush point that the clock can stop at

-----------------------------------------------------------------------------
(* JavaScript values *)

NaN == -1                     \* Number.NaN; every real timestamp is >= 0
Undefined == "undefined"      \* the value of a missing property
oneDay == 86400000
Minute == 60 * 1000
Hour == 60 * Minute

Falsy(v) == v = "" \/ v = Undefined

\* x > y and x < y on numbers: false as soon as one side is NaN
Gt(x, y) == x # NaN /\ y # NaN /\ x > y
Lt(x, y) == x # NaN /\ y # NaN /\ x < y
Plus(x, y) == IF x = NaN \/ y = NaN THEN NaN ELSE x + y

Min(S) == CHOOSE x \in S : \A y \in S : x <= y

\* String.prototype.indexOf on character sequences: 0-based position or -1
StrIndexOf(s, pat) ==
    LET hits == {i \in 1..(Len(s) - Len(pat) + 1) : SubSeq(s, i, i + Len(pat) - 1) = pat}
    IN IF hits = {} THEN -1 ELSE Min(hits) - 1

DeviceLevelTag == <<"d", "e", "v", "i", "c", "e">>

\* What String.prototype.replace inserts for a replacement string: "$$" stands
\* for one dollar sign and "$&" for the matched text
Substitution(matched, replacement) ==
    CASE replacement = "$$" -> "$"
      [] replacement = "$&" -> matched
      [] OTHER -> replacement

\* String.prototype.replace(pattern, replacement) with a string pattern:
\* only the first occurrence of the pattern is replaced
Replace(text, pattern, replacement) ==
    LET hits == {i \in 1..Len(text) : text[i] = pattern}
    IN IF hits = {} THEN text
       ELSE LET i == Min(hits)
            IN SubSeq(text, 1, i - 1) \o <<Substitution(pattern, replacement)>>
                  \o SubSeq(text, i + 1, Len(text))

RECURSIVE Join(_, _)
Join(ss, sep) ==
    IF ss = <<>> THEN <<>>
    ELSE IF Len(ss) = 1 THEN Head(ss)
    ELSE Head(ss) \o <<sep>> \o Join(Tail(ss), sep)

IndexPermutations(n) == {p \in [1..n -> 1..n] : \A i, j \in 1..n : i # j => p[i] # p[j]}

\* Array.prototype.sort(cmp).  Both comparators of this module are inconsistent
\* (one never answers "smaller", the other never answers "equal"), so the order
\* the engine leaves is implementation-defined.  Every comparison sort compares
\* the elements it leaves next to each other, so the outcomes are the
\* permutations in which each neighbouring pair is backed by an answer of the
\* comparator: "x before y" asked either way round, or "equal" for a pair kept
\* in its original order.
\* cmp[i][j] is the comparator's answer for (array[i], array[j]).
SortOutcomes(array, cmp) ==
    LET n == Len(array)
        MayPrecede(i, j) ==
            \/ cmp[i][j] < 0
            \/ cmp[j][i] > 0
            \/ (i < j /\ (cmp[i][j] = 0 \/ cmp[j][i] = 0))
        ok == {p \in IndexPermutations(n) : \A k \in 1..(n - 1) : MayPrecede(p[k], p[k + 1])}
    IN {[k \in 1..n |-> array[p[k]]] : p \in ok}

-----------------------------------------------------------------------------
(* Configuration and notifications: the inputs *)

Rule(d, v, m, o) == [deviceId |-> d, value |-> v, message |-> m, options |-> o]

NoMessage == <<>>                                  \* no message configured for the rule
RuleTemplate == <<"$DEVICE", "=", "$VALUE">>
OtherTemplate == <<"all: ", "$VALUE">>
DefaultTemplate == <<"$TIME", " ", "$DEVICE", ": ", "$VALUE">>

RuleAOn      == Rule("A", "on", RuleTemplate, "collect")
RuleA        == Rule("A", "", NoMessage, "ignore")
RuleCatchAll == Rule("", "", OtherTemplate, "collect")
RuleB        == Rule("B", "", NoMessage, "collect")
RuleBOff     == Rule("B", "off", OtherTemplate, "")
RuleAnyOn    == Rule("", "on", NoMessage, "")

RuleUniverse == {RuleAOn, RuleA, RuleCatchAll, RuleB, RuleBOff, RuleAnyOn}

\* every order of every choice of at most MaxRules rules
Catalogs ==
    UNION {{c \in [1..n -> RuleUniverse] : \A i, j \in 1..n : i # j => c[i] # c[j]} : n \in 0..MaxRules}

Time(h, m) == [h |-> h, m |-> m]
Morning == Time(8, 0)
Evening == Time(20, 0)

Config(rules, forwardAll, collectDefault, times) ==
    [token |-> "TOKEN", chatId |-> "CHAT",
     deviceNotifications |-> rules,
     forwardAllNotifications |-> forwardAll,
     collectDefaultMessages |-> collectDefault,
     defaultMessage |-> DefaultTemplate,
     notificationInterval |-> times,
     logLevel |-> 1]

Notification(lvl, src, dev, l, ts) ==
    [level |-> lvl, source |-> src, timestamp |-> ts, message |-> [dev |-> dev, l |-> l]]

LevelDevice == <<"d", "e", "v", "i", "c", "e", "-", "i", "n", "f", "o">>
LevelPushDevice == <<"p", "u", "s", "h", ".", "d", "e", "v", "i", "c", "e">>
LevelModule == <<"m", "o", "d", "u", "l", "e">>

DeviceName(src) == IF src = "A" THEN "Door" ELSE "Lamp"

Notifications ==
    {Notification(LevelDevice, src, DeviceName(src), l, 100) : src \in {"A", "B"}, l \in {"on", "off"}}
    \cup {Notification(LevelPushDevice, "A", "Door", "on", 100),
          Notification(LevelModule, "A", "Door", "on", 100)}

NoNotification == Notification(<<>>, "", "", "", 0)

-----------------------------------------------------------------------------
(* Module functions *)

\* compareRules without its test of the values
compareRulesByDeviceOnly(x, y) ==
    IF ~Falsy(x.deviceId) /\ Falsy(y.deviceId) THEN -1 ELSE 1

\* the comparator of config.deviceNotifications.sort(...)
compareRules(x, y) ==
    IF (~Falsy(x.deviceId) /\ Falsy(y.deviceId)) \/ (~Falsy(x.value) /\ Falsy(y.value))
    THEN -1
    ELSE 1

\* the comparator of the interval sort: it returns the boolean x > y,
\* which the engine converts to the number 1 or 0
compareTimes(x, y) == IF Gt(x, y) THEN 1 ELSE 0

\* config.deviceNotifications.sort(function (x, y) {...})
sortRules(rules) ==
    SortOutcomes(rules, [i \in 1..Len(rules) |-> [j \in 1..Len(rules) |-> compareRules(rules[i], rules[j])]])

\* the .sort(function (x, y) { return x > y; }) of the parsed times
sortTimes(times) ==
    SortOutcomes(times, [i \in 1..Len(times) |-> [j \in 1..Len(times) |-> compareTimes(times[i], times[j])]])

\* indexOf(array, func): 0-based index of the first element func accepts, or -1;
\* accepts[i] is func(array[i]) === true
indexOf(array, accepts) ==
    LET hits == {i \in 1..Len(array) : accepts[i]}
    IN IF hits = {} THEN -1 ELSE Min(hits) - 1

\* the value find() returns when func accepts no element: false, every property
\* of which reads as undefined
False == [deviceId |-> Undefined, value |-> Undefined, message |-> NoMessage, options |-> Undefined]

\* find(array, func): the first element func accepts; accepts[i] is func(array[i]) === true
find(array, accepts) ==
    LET hits == {i \in 1..Len(array) : accepts[i]}
    IN IF hits = {} THEN False ELSE array[Min(hits)]

\* matches that also accepts a rule without device and value
matchesOrCatchAll(x, notification) ==
    \/ x.deviceId = notification.source /\ (x.value = notification.message.l \/ Falsy(x.value))
    \/ Falsy(x.deviceId) /\ Falsy(x.value)

\* the predicate the notification handler hands to find()
matches(x, notification) ==
    x.deviceId = notification.source /\ (x.value = notification.message.l \/ Falsy(x.value))

\* the handler's lookup of the rule for a notification
findDevice(rules, notification) ==
    find(rules, [i \in 1..Len(rules) |-> matches(rules[i], notification)])

composeMessage(message, notification) ==
    Replace(Replace(Replace(message,
        "$TIME", ToString(notification.timestamp)),
        "$DEVICE", notification.message.dev),
        "$VALUE", notification.message.l)

\* collectNotification with unshift in place of push
collectNotificationUnshift(msgs, notification, message) ==
    LET dev == notification.message.dev
        entry == [time |-> notification.timestamp, message |-> message]
    IN IF \A i \in 1..Len(msgs) : msgs[i].dev # dev
       THEN Append(msgs, [dev |-> dev, entries |-> <<entry>>])
       ELSE [i \in 1..Len(msgs) |->
                IF msgs[i].dev = dev THEN [msgs[i] EXCEPT !.entries = <<entry>> \o @] ELSE msgs[i]]

\* collectNotification(notification, message): push {time, message} onto the
\* array of the notification's device, created when the device has none yet
collectNotification(msgs, notification, message) ==
    LET dev == notification.message.dev
        entry == [time |-> notification.timestamp, message |-> message]
    IN IF \A i \in 1..Len(msgs) : msgs[i].dev # dev
       THEN Append(msgs, [dev |-> dev, entries |-> <<entry>>])
       ELSE [i \in 1..Len(msgs) |->
                IF msgs[i].dev = dev THEN [msgs[i] EXCEPT !.entries = Append(@, entry)] ELSE msgs[i]]

\* The name config is free in sendMessage and in its complete callback: it is
\* not the init parameter but the host's global of that name, the configuration
\* of the automation itself, which has no logLevel (undefined compares like NaN)
globalConfig == [logLevel |-> NaN]

\* http.request(...): one more request in flight
sendMessage(reqs, message) == reqs (+) SetToBag({message})

\* What the host hands to the complete callback: a response with status 200,
\* one with an error status, or a transport failure, reported as a string or
\* without a status (response.status is undefined and compares like NaN)
Response(status) == [status |-> status]
Responses == {Response(200), Response(500), Response(NaN)}
NoResponse == Response(0)

\* The levels of the entries the complete callback adds to the host's
\* notification list.  The info branch evaluates JSON.stringify(notification)
\* with the free name notification and throws before addNotification is called.
completeLogs(response) ==
    IF response.status = 200 /\ globalConfig.logLevel = 2
    THEN <<>>
    ELSE IF Gt(response.status, 200) /\ Gt(globalConfig.logLevel, 0)
    THEN <<"error">>
    ELSE <<>>

\* JSON.stringify(this.messages)
StringifyEntry(e) == <<"{time:", ToString(e.time), ",message:">> \o e.message \o <<"}">>
StringifyDevice(d) ==
    <<d.dev, ":[">> \o Join([i \in 1..Len(d.entries) |-> StringifyEntry(d.entries[i])], ",") \o <<"]">>
Stringify(msgs) ==
    <<"{">> \o Join([i \in 1..Len(msgs) |-> StringifyDevice(msgs[i])], ",") \o <<"}">>

\* reactsTo with the comparison turned round
reactsToInverted(notification) == ~(StrIndexOf(notification.level, DeviceLevelTag) > 0)

\* the level test of the notification handler: react to device notifications only
reactsTo(notification) == ~(StrIndexOf(notification.level, DeviceLevelTag) < 0)

\* notificationHandlerOutcome without the test of collectDefaultMessages
notificationHandlerOutcomeSendsDefault(cfg, notification) ==
    LET device == findDevice(cfg.deviceNotifications, notification)
    IN IF ~reactsTo(notification)
       THEN [act |-> "return", message |-> <<>>]
       ELSE IF device = False /\ cfg.forwardAllNotifications
       THEN [act |-> "send", message |-> composeMessage(cfg.defaultMessage, notification)]
       ELSE IF device.deviceId # "" /\ device.options # "ignore"
       THEN [act |-> IF device.options = "collect" THEN "collect" ELSE "send",
             message |-> composeMessage(IF device.message # NoMessage THEN device.message
                                        ELSE cfg.defaultMessage, notification)]
       ELSE [act |-> "send", message |-> <<>>]

\* What one call of the notification handler does with a notification:
\* nothing, one sendMessage(message) or one collectNotification(notification, message).
notificationHandlerOutcome(cfg, notification) ==
    LET device == findDevice(cfg.deviceNotifications, notification)
    IN IF ~reactsTo(notification)
       THEN [act |-> "return", message |-> <<>>]
       ELSE IF device = False /\ cfg.forwardAllNotifications
       THEN [act |-> IF cfg.collectDefaultMessages THEN "collect" ELSE "send",
             message |-> composeMessage(cfg.defaultMessage, notification)]
       ELSE IF device.deviceId # "" /\ device.options # "ignore"
       THEN [act |-> IF device.options = "collect" THEN "collect" ELSE "send",
             message |-> composeMessage(IF device.message # NoMessage THEN device.message
                                        ELSE cfg.defaultMessage, notification)]
       ELSE [act |-> "send", message |-> <<>>]

\* collects without the test of the rules
collectsByDefaultOnly(cfg) == cfg.collectDefaultMessages

\* the condition under which init schedules the periodic transfer
collects(cfg) ==
    \/ cfg.collectDefaultMessages
    \/ \E i \in 1..Len(cfg.deviceNotifications) : cfg.deviceNotifications[i].options = "collect"

\* new Date(year, month, date, hours, minutes).getTime() for the day of t
timeOfDay(t, time) ==
    IF time.h = NaN \/ time.m = NaN THEN NaN
    ELSE (t - (t % oneDay)) + time.h * Hour + time.m * Minute

\* config.notificationInterval.split(',').map(...), before the sort
parseInterval(times, t) == [i \in 1..Len(times) |-> timeOfDay(t, times[i])]

\* scheduleNotification at time t: the interval it leaves and the time the timer is set for
\* (NaN when no element is before or after t: interval[-1] is undefined)
scheduleNotification(intv, t) ==
    LET after == indexOf(intv, [i \in 1..Len(intv) |-> Gt(intv[i], t)])
        next == IF after = -1 THEN indexOf(intv, [i \in 1..Len(intv) |-> Lt(intv[i], t)]) ELSE after
        advanced == IF after = -1 /\ next # -1
                    THEN [intv EXCEPT ![next + 1] = Plus(@, oneDay)]
                    ELSE intv
    IN [interval |-> advanced,
        target |-> IF next = -1 THEN NaN ELSE advanced[next + 1]]

\* a timer set for time t has run out (a delay that is NaN or negative counts as 0)
due(t) == t = NaN \/ t <= now

-----------------------------------------------------------------------------
(* State machine *)

Last(op, notification, fired, armed) ==
    [op |-> op, notification |-> notification, fired |-> fired, armed |-> armed,
     response |-> NoResponse, logged |-> <<>>]

TotalEntries(msgs) ==
    LET RECURSIVE Sum(_)
        Sum(i) == IF i = 0 THEN 0 ELSE Len(msgs[i].entries) + Sum(i - 1)
    IN Sum(Len(msgs))

StartTime == 7 * Hour

\* the clock stops at each flush point of each day and up to MaxLate ms after it
Instants ==
    {d * oneDay + time.h * Hour + time.m * Minute + late :
        d \in 0..MaxDays, time \in {Morning, Evening}, late \in 0..MaxLate}

\* the state after construction, before the host calls init(config)
InitWith(configs) ==
    /\ config \in configs
    /\ url = <<>>
    /\ messages = <<>>
    /\ interval = <<>>
    /\ length = Undefined
    /\ registered = FALSE
    /\ timers = EmptyBag
    /\ now = StartTime
    /\ requests = EmptyBag
    /\ last = Last("new", NoNotification, <<>>, <<>>)
    /\ audit = [collected |-> 0, flushed |-> 0]

\* init(config)
init ==
    /\ ~registered
    /\ \E sorted \in sortRules(config.deviceNotifications) :
        LET cfg == [config EXCEPT !.deviceNotifications = sorted]
        IN /\ config' = cfg
           /\ url' = <<"https://api.telegram.org/bot", cfg.token, "/sendMessage">>
           /\ IF collects(cfg)
              THEN /\ BagCardinality(timers) < MaxTimers
                   /\ \E parsed \in sortTimes(parseInterval(cfg.notificationInterval, now)) :
                        LET s == scheduleNotification(parsed, now)
                        IN /\ interval' = s.interval
                           /\ timers' = timers (+) SetToBag({s.target})
                           /\ last' = Last("init", NoNotification, <<>>, <<s.target>>)
              ELSE /\ UNCHANGED <<interval, timers>>
                   /\ last' = Last("init", NoNotification, <<>>, <<>>)
    /\ registered' = TRUE
    /\ UNCHANGED <<messages, length, now, requests, audit>>

\* stop(): the handler is taken off the controller; nothing else is touched
stop ==
    /\ registered
    /\ registered' = FALSE
    /\ last' = Last("stop", NoNotification, <<>>, <<>>)
    /\ UNCHANGED <<config, url, messages, interval, length, timers, now, requests, audit>>

\* notificationHandler without the return after collectNotification
notificationHandlerFallsThrough(notification) ==
    /\ registered
    /\ LET out == notificationHandlerOutcome(config, notification)
       IN /\ CASE out.act = "send" ->
                    /\ BagCardinality(requests) < MaxInFlight
                    /\ requests' = sendMessage(requests, out.message)
                    /\ UNCHANGED <<messages, audit>>
              [] out.act = "collect" ->
                    /\ audit.collected < MaxCollect
                    /\ messages' = collectNotification(messages, notification, out.message)
                    /\ audit' = [audit EXCEPT !.collected = @ + 1]
                    /\ BagCardinality(requests) < MaxInFlight
                    /\ requests' = sendMessage(requests, out.message)
              [] OTHER -> UNCHANGED <<messages, requests, audit>>
    /\ last' = Last("notificationHandler", notification, <<>>, <<>>)
    /\ UNCHANGED <<config, url, interval, length, registered, timers, now>>

\* the controller emits 'notifications.push' and this.notificationHandler runs
notificationHandler(notification) ==
    /\ registered
    /\ LET out == notificationHandlerOutcome(config, notification)
       IN /\ CASE out.act = "send" ->
                    /\ BagCardinality(requests) < MaxInFlight
                    /\ requests' = sendMessage(requests, out.message)
                    /\ UNCHANGED <<messages, audit>>
              [] out.act = "collect" ->
                    /\ audit.collected < MaxCollect
                    /\ messages' = collectNotification(messages, notification, out.message)
                    /\ audit' = [audit EXCEPT !.collected = @ + 1]
                    /\ UNCHANGED requests
              [] OTHER -> UNCHANGED <<messages, requests, audit>>
    /\ last' = Last("notificationHandler", notification, <<>>, <<>>)
    /\ UNCHANGED <<config, url, interval, length, registered, timers, now>>

\* a timer runs out and this.notifier runs: send what was collected, then reschedule.
\* clearTimeout(self.notifier) is handed the function, not a timer id: it clears nothing.
notifier(t) ==
    /\ BagIn(t, timers)
    /\ due(t)
    /\ BagCardinality(requests) < MaxInFlight
    /\ requests' = sendMessage(requests, Stringify(messages))
    /\ length' = "0"
    /\ LET s == scheduleNotification(interval, now)
       IN /\ interval' = s.interval
          /\ timers' = (timers (-) SetToBag({t})) (+) SetToBag({s.target})
          /\ last' = Last("notifier", NoNotification, <<t>>, <<s.target>>)
    /\ audit' = [audit EXCEPT !.flushed =
                    IF @ + TotalEntries(messages) > MaxCollect THEN MaxCollect + 1
                    ELSE @ + TotalEntries(messages)]
    /\ UNCHANGED <<config, url, messages, registered, now>>

\* the complete callback of a request runs with the host's response; what it
\* logs goes to the host's notification list and changes nothing of the module
complete(message, response) ==
    /\ BagIn(message, requests)
    /\ requests' = requests (-) SetToBag({message})
    /\ last' = [Last("complete", NoNotification, <<>>, <<>>)
                 EXCEPT !.response = response, !.logged = completeLogs(response)]
    /\ UNCHANGED <<config, url, messages, interval, length, registered, timers, now, audit>>

\* time passes
tick ==
    /\ \E t \in Instants : t > now
    /\ now' = Min({t \in Instants : t > now})
    /\ last' = Last("tick", NoNotification, <<>>, <<>>)
    /\ UNCHANGED <<config, url, messages, interval, length, registered, timers, requests, audit>>

Next ==
    \/ init
    \/ stop
    \/ \E notification \in Notifications : notificationHandler(notification)
    \/ \E t \in BagToSet(timers) : notifier(t)
    \/ \E message \in BagToSet(requests), response \in Responses : complete(message, response)
    \/ tick

\* Flush scheduling: a fixed pair of rules, one or two flush times in either order
ScheduleConfigs ==
    {Config(<<RuleA, RuleAOn>>, TRUE, FALSE, times) :
        times \in {<<Morning>>, <<Morning, Evening>>, <<Evening, Morning>>}}

Init == InitWith(ScheduleConfigs)

Spec == Init /\ [][Next]_vars

\* The same with timers that run out at most MaxLate ms late: the clock does not
\* move on while a timer is that late or is to run at once
tickOnTime ==
    /\ \A t \in BagToSet(timers) : t # NaN /\ now < t + MaxLate
    /\ tick

NextOnTime ==
    \/ init
    \/ stop
    \/ \E notification \in Notifications : notificationHandler(notification)
    \/ \E t \in BagToSet(timers) : notifier(t)
    \/ \E message \in BagToSet(requests), response \in Responses : complete(message, response)
    \/ tickOnTime

SpecOnTime == Init /\ [][NextOnTime]_vars

\* Routing: every catalog of at most MaxRules rules in every order, every policy
RoutingConfigs ==
    {Config(rules, forwardAll, collectDefault, <<Morning>>) :
        rules \in Catalogs, forwardAll \in BOOLEAN, collectDefault \in BOOLEAN}

InitRouting == InitWith(RoutingConfigs)

\* the routing of notifications does not depend on the clock: the host calls only
NextRouting ==
    \/ init
    \/ stop
    \/ \E notification \in Notifications : notificationHandler(notification)
    \/ \E message \in BagToSet(requests), response \in Responses : complete(message, response)

SpecRouting == InitRouting /\ [][NextRouting]_vars

\* A flush-time list without a valid time: the empty string, whose split(',')
\* gives [""], or text that is no hh:mm; parseInt gives NaN for hours and minutes
NoTime == Time(NaN, NaN)

InvalidTimesConfigs ==
    {Config(<<RuleA, RuleAOn>>, TRUE, FALSE, times) : times \in {<<NoTime>>, <<NoTime, NoTime>>}}

InitInvalidTimes == InitWith(InvalidTimesConfigs)

SpecInvalidTimes == InitInvalidTimes /\ [][Next]_vars

\* Logging: one rule that sends at once, every log level
LoggingConfigs ==
    {[Config(<<RuleBOff>>, forwardAll, FALSE, <<Morning>>) EXCEPT !.logLevel = level] :
        forwardAll \in BOOLEAN, level \in 0..2}

InitLogging == InitWith(LoggingConfigs)

SpecLogging == InitLogging /\ [][NextRouting]_vars

\* Composition: no rule and forwardAll, so that every device notification is
\* sent at once with the text composed from the default template; device names
\* and values that are ordinary text, placeholder text or replacement patterns
ComposeTemplates ==
    {<<"$DEVICE", ": ", "$VALUE", " at ", "$TIME">>,
     <<"$VALUE", " ", "$DEVICE">>,
     <<"$DEVICE", " ", "$DEVICE">>,
     <<"plain">>,
     DefaultTemplate}

ComposeConfigs ==
    {[Config(<<>>, TRUE, FALSE, <<Morning>>) EXCEPT !.defaultMessage = template] :
        template \in ComposeTemplates}

ComposeNotifications ==
    {Notification(LevelDevice, "A", dev, l, 100) : dev \in {"Door", "$VALUE", "$$"}, l \in {"open", "$TIME"}}

InitCompose == InitWith(ComposeConfigs)

NextCompose ==
    \/ init
    \/ stop
    \/ \E notification \in ComposeNotifications : notificationHandler(notification)
    \/ \E message \in BagToSet(requests), response \in Responses : complete(message, response)

SpecCompose == InitCompose /\ [][NextCompose]_vars

\* Collection with and without a schedule: a rule that collects or a rule that
\* sends at once, with and without collection of the default messages, one
\* valid flush time, notifications of the one device, timers that run out at
\* most MaxLate ms late
PendingConfigs ==
    {Config(rules, TRUE, collectDefault, <<Morning>>) :
        rules \in {<<RuleB>>, <<RuleBOff>>}, collectDefault \in BOOLEAN}

PendingNotifications ==
    {Notification(LevelDevice, "B", "Lamp", l, 100) : l \in {"on", "off"}}

InitPending == InitWith(PendingConfigs)

NextPending ==
    \/ init
    \/ stop
    \/ \E notification \in PendingNotifications : notificationHandler(notification)
    \/ \E t \in BagToSet(timers) : notifier(t)
    \/ \E message \in BagToSet(requests), response \in Responses : complete(message, response)
    \/ tickOnTime

SpecPending == InitPending /\ [][NextPending]_vars

-----------------------------------------------------------------------------
(* What the claims speak of, stated without the module's own functions *)

Rules == config.deviceNotifications

\* the level contains "device"
DeviceLevel(n) == n.level \in {LevelDevice, LevelPushDevice}

\* the rules written for the notification's device and value, or for its device and any value
Exact(n) == {i \in 1..Len(Rules) : Rules[i].deviceId = n.source /\ Rules[i].value = n.message.l}
General(n) == {i \in 1..Len(Rules) : Rules[i].deviceId = n.source /\ Rules[i].value = ""}
Matching(n) == Exact(n) \cup General(n)
FirstMatching(n) == Rules[Min(Matching(n))]
CatchAlls == {i \in 1..Len(Rules) : Rules[i].deviceId = "" /\ Rules[i].value = ""}

\* the template with each placeholder replaced by the notification's field
Composed(template, n) ==
    [i \in 1..Len(template) |->
        CASE template[i] = "$TIME" -> ToString(n.timestamp)
          [] template[i] = "$DEVICE" -> n.message.dev
          [] template[i] = "$VALUE" -> n.message.l
          [] OTHER -> template[i]]

EntriesOf(msgs, dev) ==
    IF \E i \in 1..Len(msgs) : msgs[i].dev = dev
    THEN msgs[CHOOSE i \in 1..Len(msgs) : msgs[i].dev = dev].entries
    ELSE <<>>

\* the step appends exactly the entry {time, text} to the sequence of the notification's device
Collected(n, text) ==
    /\ EntriesOf(messages', n.message.dev)
         = Append(EntriesOf(messages, n.message.dev), [time |-> n.timestamp, message |-> text])
    /\ \A dev \in {"Door", "Lamp"} \ {n.message.dev} : EntriesOf(messages', dev) = EntriesOf(messages, dev)

\* the step issues exactly one send request, with this text
Sent(text) == requests' = requests (+) SetToBag({text})

HandlerRan == last'.op = "notificationHandler"

-----------------------------------------------------------------------------
(* Claims *)

\* C1: a device-level notification whose first matching rule has disposition
\* 'ignore' is suppressed: the handler issues no send request, not even one with
\* an empty text, and appends nothing to the pending batch.
C1_IgnoredIsSuppressed ==
    [][(/\ HandlerRan
        /\ DeviceLevel(last'.notification)
        /\ Matching(last'.notification) # {}
        /\ FirstMatching(last'.notification).options = "ignore")
       => (requests' = requests /\ messages' = messages)]_vars

\* C2: a device-level notification that matches no rule while forwardAll is off
\* is suppressed: no send request, nothing appended to the pending batch.
C2_UnmatchedIsSuppressed ==
    [][(/\ HandlerRan
        /\ DeviceLevel(last'.notification)
        /\ Matching(last'.notification) = {}
        /\ ~config.forwardAllNotifications)
       => (requests' = requests /\ messages' = messages)]_vars

\* C3: immediately after every flush the pending batch is empty for every
\* device, and the next collect for a device starts a fresh sequence that holds
\* only the newly collected entry.
C3_FlushEmptiesBatch ==
    [][/\ (last'.op = "notifier" => TotalEntries(messages') = 0)
       /\ (last.op = "notifier" /\ HandlerRan /\ messages' # messages
             => Len(EntriesOf(messages', last'.notification.message.dev)) = 1)]_vars

\* C4: every collected entry is carried by the payload of exactly one flush
\* send: none is lost and none is sent again by a later flush.  Counted: the
\* payloads never carry more entries than were collected, and right after a
\* flush they have carried every entry collected so far.
C4_EachEntryFlushedOnce ==
    /\ audit.flushed <= audit.collected
    /\ (last.op = "notifier" => audit.flushed = audit.collected)

\* the coming occurrences of the configured times of day, by the calendar
Occurrences ==
    {d * oneDay + config.notificationInterval[i].h * Hour + config.notificationInterval[i].m * Minute :
        d \in 0..(MaxDays + 2), i \in 1..Len(config.notificationInterval)}

\* C5: with several daily flush times configured (08:00 and 20:00), a point that
\* has fired or passed stays a candidate for the next day, so no configured time
\* is skipped: each time the timer is set, it is set for the next occurrence of
\* a configured time of day after the current time.
C5_NoFlushTimeSkipped ==
    (config.notificationInterval = <<Morning, Evening>> /\ last.armed # <<>>)
        => last.armed[1] = Min({t \in Occurrences : t > now})

\* C6: shutdown cancels the pending flush timer: once stop() has returned and
\* until the module is initialised again, no flush fires and no send is issued.
C6_NoFlushAfterStop ==
    [][(~registered /\ ~registered')
        => (last'.op # "notifier" /\ \A text \in BagToSet(requests') :
                CopiesIn(text, requests') <= CopiesIn(text, requests))]_vars

\* C7: after the sort at load, whatever the configured order of a catalog that
\* holds a rule (A, V) and a rule (A, no value), the first-match scan returns
\* the (A, V) rule for a notification from A with value V and the (A, no value)
\* rule for a notification from A with a value that has no rule of its own.
C7_ExactRuleFirst ==
    url # <<>> =>
        \A n \in Notifications :
            LET device == findDevice(Rules, n)
            IN General(n) # {} =>
                /\ device.deviceId = n.source
                /\ device.value = IF Exact(n) # {} THEN n.message.l ELSE ""

C7_Witness ==
    /\ last.op = "notificationHandler"
    /\ last.notification = Notification(LevelDevice, "A", "Door", "on", 100)
    /\ Exact(last.notification) # {} /\ General(last.notification) # {}
    /\ EntriesOf(messages, "Door") = <<[time |-> 100, message |-> <<"Door", "=", "on">>]>>

C9_CollectExactlyWhen ==
    [][(HandlerRan /\ DeviceLevel(last'.notification))
       => LET n == last'.notification
              matched == Matching(n) # {}
              collect == \/ matched /\ FirstMatching(n).options = "collect"
                         \/ ~matched /\ config.forwardAllNotifications /\ config.collectDefaultMessages
              template == IF matched /\ FirstMatching(n).message # NoMessage
                          THEN FirstMatching(n).message
                          ELSE config.defaultMessage
          IN /\ collect => (requests' = requests /\ Collected(n, Composed(template, n)))
             /\ ~collect => messages' = messages]_vars

C9_Witness ==
    /\ last.op = "notificationHandler"
    /\ last.notification = Notification(LevelDevice, "B", "Lamp", "on", 100)
    /\ Matching(last.notification) # {}
    /\ FirstMatching(last.notification) = RuleB
    /\ EntriesOf(messages, "Lamp") = <<[time |-> 100, message |-> <<"100", " ", "Lamp", ": ", "on">>]>>
    /\ requests = EmptyBag

\* C10: a notification whose level does not contain "device" makes the handler
\* do nothing, whatever the configuration: no send request, and the pending
\* batch and the flush schedule stay as they are.
C10_OtherLevelsIgnored ==
    [][(HandlerRan /\ ~DeviceLevel(last'.notification))
       => UNCHANGED <<requests, messages, interval, timers>>]_vars

C10_Witness ==
    /\ last.op = "notificationHandler"
    /\ ~DeviceLevel(last.notification)
    /\ registered

\* the points of the flush schedule
Points == {interval[i] : i \in 1..Len(interval)}

\* C11: each time a flush re-arms the timer at time now: if some point of the
\* schedule is later than now, the timer is set for the smallest such point and
\* no point changes; otherwise the smallest point of the schedule is advanced by
\* exactly 24 h, only that point changes, and the timer is set for it.
C11_ArmsSmallestPoint ==
    [][last'.op = "notifier" =>
        IF \E p \in Points : p > now
        THEN /\ last'.armed = <<Min({p \in Points : p > now})>>
             /\ interval' = interval
        ELSE \E i \in 1..Len(interval) :
                /\ interval[i] = Min(Points)
                /\ interval' = [interval EXCEPT ![i] = @ + oneDay]
                /\ last'.armed = <<interval[i] + oneDay>>]_vars

\* C12: however late the timer runs out (on the very millisecond of a point
\* included), the flush sets the timer for a defined time after the current
\* time, so that no flush follows at once.
C12_LateFlushArmsFuture ==
    last.op = "notifier" => (last.armed[1] # NaN /\ last.armed[1] > now)

\* C13: with collection enabled and a flush-time list that yields no valid
\* point, scheduling fails with a configuration error and no timer is ever set
\* for an undefined time.
C13_NoTimerWithoutPoint ==
    \A t \in BagToSet(timers) : t # NaN

\* C14: the completion of a send that failed (a status above 200, or a
\* transport failure reported without such a status) adds exactly one error
\* entry to the log when the configured log level is at least 1 and none when it
\* is 0, and issues no new send; a completion with status 200 adds an info entry
\* only when the log level is at least 2.
C14_FailureLoggedOnce ==
    [][last'.op = "complete" =>
        /\ \A text \in BagToSet(requests') : CopiesIn(text, requests') <= CopiesIn(text, requests)
        /\ IF last'.response.status = 200
           THEN last'.logged # <<>> => (last'.logged = <<"info">> /\ config.logLevel >= 2)
           ELSE last'.logged = IF config.logLevel >= 1 THEN <<"error">> ELSE <<>>]_vars

\* s is an initial part of t
IsPrefix(s, t) == Len(s) <= Len(t) /\ SubSeq(t, 1, Len(s)) = s

\* C15: between two flushes the pending sequence of each device holds its
\* entries in the order in which the handler received their notifications: every
\* step but a flush leaves each device's sequence as an initial part of the new
\* one, a collected notification becomes the last entry of its device's
\* sequence, and the sequences of the other devices stay as they are.
C15_ArrivalOrderKept ==
    [][last'.op # "notifier" =>
        /\ \A dev \in {"Door", "Lamp"} : IsPrefix(EntriesOf(messages, dev), EntriesOf(messages', dev))
        /\ (HandlerRan /\ messages' # messages) =>
              LET n == last'.notification
                  after == EntriesOf(messages', n.message.dev)
              IN /\ Len(after) = Len(EntriesOf(messages, n.message.dev)) + 1
                 /\ after[Len(after)].time = n.timestamp
                 /\ \A dev \in {"Door", "Lamp"} \ {n.message.dev} :
                        EntriesOf(messages', dev) = EntriesOf(messages, dev)]_vars

C15_Witness ==
    /\ last.op = "notificationHandler"
    /\ last.notification = Notification(LevelDevice, "A", "Door", "off", 100)
    /\ EntriesOf(messages, "Door") =
         <<[time |-> 100, message |-> <<"Door", "=", "on">>],
           [time |-> 100, message |-> <<"100", " ", "Door", ": ", "off">>]>>

\* the template with the first occurrence of each placeholder replaced by the
\* notification's field as it is, everything else unchanged
FirstReplaced(template, n) ==
    [i \in 1..Len(template) |->
        LET first == \A j \in 1..(i - 1) : template[j] # template[i]
        IN CASE first /\ template[i] = "$TIME" -> ToString(n.timestamp)
             [] first /\ template[i] = "$DEVICE" -> n.message.dev
             [] first /\ template[i] = "$VALUE" -> n.message.l
             [] OTHER -> template[i]]

\* C16: the composed text is the template with the first occurrence of each of
\* $TIME, $DEVICE and $VALUE replaced by the notification's timestamp, device
\* name and value, all other text unchanged; a field value is inserted as it is
\* and is not itself searched for placeholders.  Here: the text of the send
\* caused by a device notification under the default template.
C16_FieldsInsertedAsIs ==
    [][(HandlerRan /\ DeviceLevel(last'.notification))
        => Sent(FirstReplaced(config.defaultMessage, last'.notification))]_vars

\* C17: once init has run with collection enabled, the points of the flush
\* schedule are in strictly increasing order, also after every advancement of a
\* point by 24 h.  Here for flush times configured in increasing order (08:00,
\* 20:00), which the sort at load leaves as they are.
C17_ScheduleIncreasing ==
    (url # <<>> /\ collects(config) /\ config.notificationInterval = <<Morning, Evening>>)
        => \A i \in 1..(Len(interval) - 1) : interval[i] < interval[i + 1]

\* C18: over init, flushes, stop and init again of the same instance, at most
\* one flush timer is pending at any time.
C18_OneTimerPending ==
    BagCardinality(timers) <= 1

\* C19: one run of the notification handler does at most one thing: it appends
\* exactly one entry to the pending batch and issues no send, or it issues at
\* most one send and appends nothing; it never collects and sends the same
\* notification.
C19_CollectOrSend ==
    [][HandlerRan =>
        \/ /\ requests' = requests
           /\ TotalEntries(messages') = TotalEntries(messages) + 1
        \/ /\ messages' = messages
           /\ \/ requests' = requests
              \/ \E text \in BagToSet(requests') : requests' = requests (+) SetToBag({text})]_vars

C19_Witness ==
    /\ last.op = "notificationHandler"
    /\ last.notification = Notification(LevelDevice, "B", "Lamp", "off", 100)
    /\ requests = SetToBag({<<"all: ", "off">>})
    /\ TotalEntries(messages) = 1

\* C20: with a valid flush-time list, between init and stop, a pending batch
\* that is not empty has a flush timer pending: the handler collects only under
\* a configuration under which init has set the timer.
C20_BatchHasTimer ==
    (registered /\ TotalEntries(messages) > 0) => BagCardinality(timers) >= 1

C20_Witness ==
    /\ registered
    /\ last.op = "notifier"
    /\ TotalEntries(messages) = MaxCollect
    /\ BagCardinality(timers) = 1
    /\ ~config.collectDefaultMessages

====
